---- MODULE Spec2Model ----
(***************************************************************************)
(* Model of arena_event_odds.py: win-count distributions of MTG Arena      *)
(* events (closed forms from Channel Fireball) and the reward aggregation  *)
(* built on them.                                                          *)
(*                                                                         *)
(* The program computes with Python floats.  The model computes the same   *)
(* expressions exactly, on rationals n / d^e whose numerator is an         *)
(* arbitrary-precision signed integer, so that every equality below is an  *)
(* exact one; float rounding error (about 1e-16 relative) is not modelled. *)
(***************************************************************************)
EXTENDS Integers, Sequences, FiniteSets, TLC

\* ------------------------------------------------------------------ bounds
\* Win rates are the fractions num/den with den in 1..MaxDen.
MaxDen == 20
\* numwins arguments range over 0..MaxNumwins (7 is the cap of lose3).
MaxNumwins == 9
\* maxwins arguments of cf_record_prob_lose2 range over 0..MaxMaxwins.
MaxMaxwins == 5
\* reward_scheme arguments of weighted_rewards have 0..MaxSchemeLen entries.
MaxSchemeLen == 9

\* ------------------------------------------- arbitrary-precision naturals
\* Little-endian sequences of limbs in 0..Base-1, no leading zero limb;
\* zero is <<>>.
Base == 100 * 100

RECURSIVE NatToBig(_)
NatToBig(n) ==
    IF n = 0 THEN <<>> ELSE <<n % Base>> \o NatToBig(n \div Base)

RECURSIVE BigTrim(_)
BigTrim(a) ==
    IF a = <<>> THEN a
    ELSE IF a[Len(a)] = 0 THEN BigTrim(SubSeq(a, 1, Len(a) - 1)) ELSE a

RECURSIVE BigAddC(_, _, _)
BigAddC(a, b, c) ==
    IF a = <<>> /\ b = <<>> THEN (IF c = 0 THEN <<>> ELSE <<c>>)
    ELSE LET x == IF a = <<>> THEN 0 ELSE Head(a)
             y == IF b = <<>> THEN 0 ELSE Head(b)
             s == x + y + c
         IN  <<s % Base>> \o BigAddC(IF a = <<>> THEN a ELSE Tail(a),
                                     IF b = <<>> THEN b ELSE Tail(b),
                                     s \div Base)

BigAdd(a, b) == BigAddC(a, b, 0)

RECURSIVE BigSubB(_, _, _)
BigSubB(a, b, br) ==
    IF a = <<>> THEN <<>>
    ELSE LET y == IF b = <<>> THEN 0 ELSE Head(b)
             t == Head(a) - y - br
         IN  <<IF t < 0 THEN t + Base ELSE t>>
                 \o BigSubB(Tail(a), IF b = <<>> THEN b ELSE Tail(b),
                            IF t < 0 THEN 1 ELSE 0)

\* a - b for a >= b
BigSub(a, b) == BigTrim(BigSubB(a, b, 0))

RECURSIVE BigCmpAt(_, _, _)
BigCmpAt(a, b, i) ==
    IF i = 0 THEN 0
    ELSE IF a[i] > b[i] THEN 1
    ELSE IF a[i] < b[i] THEN -1
    ELSE BigCmpAt(a, b, i - 1)

BigCmp(a, b) ==
    IF Len(a) > Len(b) THEN 1
    ELSE IF Len(a) < Len(b) THEN -1
    ELSE BigCmpAt(a, b, Len(a))

RECURSIVE BigMulC(_, _, _)
BigMulC(a, n, c) ==
    IF a = <<>> THEN NatToBig(c)
    ELSE LET s == Head(a) * n + c
         IN  <<s % Base>> \o BigMulC(Tail(a), n, s \div Base)

\* a * n for a small natural n
BigMulSmall(a, n) == IF n = 0 THEN <<>> ELSE BigMulC(a, n, 0)

RECURSIVE BigMul(_, _)
BigMul(a, b) ==
    IF a = <<>> \/ b = <<>> THEN <<>>
    ELSE LET r == BigMul(Tail(a), b)
         IN  BigAdd(BigMulSmall(b, Head(a)), IF r = <<>> THEN r ELSE <<0>> \o r)

RECURSIVE BigDivModRaw(_, _)
BigDivModRaw(a, n) ==
    IF a = <<>> THEN [q |-> <<>>, r |-> 0]
    ELSE LET hi  == BigDivModRaw(Tail(a), n)
             cur == hi.r * Base + Head(a)
         IN  [q |-> <<cur \div n>> \o hi.q, r |-> cur % n]

\* floor quotient and remainder of a by a small positive n
BigDivMod(a, n) ==
    LET x == BigDivModRaw(a, n) IN [q |-> BigTrim(x.q), r |-> x.r]

RECURSIVE BigToNat(_)
BigToNat(a) == IF a = <<>> THEN 0 ELSE Head(a) + Base * BigToNat(Tail(a))

\* ---------------------------------------------------------- signed integers
ZInt(k) ==
    IF k = 0 THEN [sg |-> 0, mag |-> <<>>]
    ELSE IF k > 0 THEN [sg |-> 1, mag |-> NatToBig(k)]
    ELSE [sg |-> -1, mag |-> NatToBig(0 - k)]

ZNeg(a) == [sg |-> 0 - a.sg, mag |-> a.mag]

ZAdd(a, b) ==
    IF a.sg = 0 THEN b
    ELSE IF b.sg = 0 THEN a
    ELSE IF a.sg = b.sg THEN [sg |-> a.sg, mag |-> BigAdd(a.mag, b.mag)]
    ELSE LET c == BigCmp(a.mag, b.mag)
         IN  IF c = 0 THEN [sg |-> 0, mag |-> <<>>]
             ELSE IF c > 0 THEN [sg |-> a.sg, mag |-> BigSub(a.mag, b.mag)]
             ELSE [sg |-> b.sg, mag |-> BigSub(b.mag, a.mag)]

ZMul(a, b) == [sg |-> a.sg * b.sg, mag |-> BigMul(a.mag, b.mag)]

RECURSIVE ZScale(_, _, _)
\* a * d^k
ZScale(a, d, k) ==
    IF k = 0 THEN a
    ELSE ZScale([sg |-> IF d = 0 THEN 0 ELSE a.sg, mag |-> BigMulSmall(a.mag, d)],
                d, k - 1)

\* ------------------------------------------------------------ exact numbers
\* A number is n / d^e: n a signed integer, d a small positive base (the
\* denominator of the win rate in hand), e >= 0.  Integers have e = 0.
RInt(k) == [n |-> ZInt(k), d |-> 1, e |-> 0]

RFrac(num, den) == [n |-> ZInt(num), d |-> den, e |-> 1]

RBase(a, b) == IF a.e = 0 THEN b.d ELSE a.d

RMax(i, j) == IF i > j THEN i ELSE j

RAdd(a, b) ==
    LET d == RBase(a, b)
        e == RMax(a.e, b.e)
    IN  [n |-> ZAdd(ZScale(a.n, d, e - a.e), ZScale(b.n, d, e - b.e)),
         d |-> d, e |-> e]

RNeg(a) == [n |-> ZNeg(a.n), d |-> a.d, e |-> a.e]

RSub(a, b) == RAdd(a, RNeg(b))

RMul(a, b) == [n |-> ZMul(a.n, b.n), d |-> RBase(a, b), e |-> a.e + b.e]

\* -1, 0 or 1 as a < b, a = b, a > b
RCmp(a, b) == RSub(a, b).n.sg

REq(a, b) == RCmp(a, b) = 0

RLe(a, b) == RCmp(a, b) <= 0

RLt(a, b) == RCmp(a, b) < 0

RECURSIVE RPow(_, _)
RPow(x, k) == IF k = 0 THEN RInt(1) ELSE RMul(x, RPow(x, k - 1))

RECURSIVE RSum(_)
RSum(s) == IF s = <<>> THEN RInt(0) ELSE RAdd(Head(s), RSum(Tail(s)))

\* ----------------------------------------------------------------- rounding
RECURSIVE BigDivPow(_, _, _)
\* floor(a / d^k), by k floor divisions
BigDivPow(a, d, k) ==
    IF k = 0 THEN a ELSE BigDivPow(BigDivMod(a, d).q, d, k - 1)

RECURSIVE TenPow(_)
TenPow(k) == IF k = 0 THEN 1 ELSE 10 * TenPow(k - 1)

\* Variant of RoundQuot that truncates toward zero instead of rounding to the
\* nearest unit.
RoundQuot_truncating(x, c, ndigits) ==
    x.n.sg * BigToNat(BigDivMod(BigDivPow(BigMulSmall(x.n.mag, TenPow(ndigits)),
                                          x.d, x.e), c).q)

\* Python's round(x / c, ndigits) for an integer c >= 1, as the integer count
\* of units 10^-ndigits: the nearest one, a tie going to the even count,
\* and round(-x) = -round(x).
RoundQuot(x, c, ndigits) ==
    LET N  == BigMulSmall(x.n.mag, TenPow(ndigits))
        D  == ZScale(ZInt(c), x.d, x.e).mag
        q  == BigDivMod(BigDivPow(N, x.d, x.e), c).q
        r  == BigSub(N, BigMul(q, D))
        t  == BigCmp(BigMulSmall(r, 2), D)
        qn == BigToNat(q)
        m  == IF t > 0 THEN qn + 1
              ELSE IF t < 0 THEN qn
              ELSE IF qn % 2 = 0 THEN qn ELSE qn + 1
    IN  x.n.sg * m

round(x, ndigits) == RoundQuot(x, 1, ndigits)

\* ------------------------------------------------- distribution functions
RECURSIVE factorial(_)
factorial(n) == IF n = 0 THEN 1 ELSE n * factorial(n - 1)

binomial(n, k) == factorial(n) \div (factorial(k) * factorial(n - k))

\* Variant of cf_record_prob_lose3 without the trailing (1 - winrate) factor
\* of the branch below the cap.
cf_record_prob_lose3_simplified(w, k) ==
    IF k = 7
    THEN RAdd(RAdd(RPow(w, 7),
                   RMul(RMul(RMul(RInt(7), RPow(w, 6)), RSub(RInt(1), w)), w)),
              RMul(RMul(RMul(RInt(28), RPow(w, 6)), RPow(RSub(RInt(1), w), 2)), w))
    ELSE RMul(RMul(RPow(w, k), RPow(RSub(RInt(1), w), 2)),
              RInt(binomial(k + 2, 2)))

\* Variant of cf_record_prob_lose3 that gives a win count above the cap the
\* probability 0.
cf_record_prob_lose3_clamped(w, k) ==
    IF k > 7 THEN RInt(0)
    ELSE IF k = 7
    THEN RAdd(RAdd(RPow(w, 7),
                   RMul(RMul(RMul(RInt(7), RPow(w, 6)), RSub(RInt(1), w)), w)),
              RMul(RMul(RMul(RInt(28), RPow(w, 6)), RPow(RSub(RInt(1), w), 2)), w))
    ELSE RMul(RMul(RMul(RPow(w, k), RPow(RSub(RInt(1), w), 2)),
                   RInt(binomial(k + 2, 2))),
              RSub(RInt(1), w))

\* Variant of cf_record_prob_lose3 that counts 21 orders of two losses before
\* the seventh win instead of 28.
cf_record_prob_lose3_miscount(w, k) ==
    IF k = 7
    THEN RAdd(RAdd(RPow(w, 7),
                   RMul(RMul(RMul(RInt(7), RPow(w, 6)), RSub(RInt(1), w)), w)),
              RMul(RMul(RMul(RInt(21), RPow(w, 6)), RPow(RSub(RInt(1), w), 2)), w))
    ELSE RMul(RMul(RMul(RPow(w, k), RPow(RSub(RInt(1), w), 2)),
                   RInt(binomial(k + 2, 2))),
              RSub(RInt(1), w))

cf_record_prob_lose3(w, k) ==
    IF k = 7
    THEN RAdd(RAdd(RPow(w, 7),
                   RMul(RMul(RMul(RInt(7), RPow(w, 6)), RSub(RInt(1), w)), w)),
              RMul(RMul(RMul(RInt(28), RPow(w, 6)), RPow(RSub(RInt(1), w), 2)), w))
    ELSE RMul(RMul(RMul(RPow(w, k), RPow(RSub(RInt(1), w), 2)),
                   RInt(binomial(k + 2, 2))),
              RSub(RInt(1), w))

\* Variant of cf_record_prob_lose2 that counts k orders below the cap instead
\* of k + 1.
cf_record_prob_lose2_offby1(w, k, m) ==
    IF k = m
    THEN RAdd(RPow(w, k), RMul(RMul(RInt(k), RPow(w, k)), RSub(RInt(1), w)))
    ELSE RMul(RMul(RPow(w, k), RPow(RSub(RInt(1), w), 2)), RInt(k))

cf_record_prob_lose2(w, k, m) ==
    IF k = m
    THEN RAdd(RPow(w, k), RMul(RMul(RInt(k), RPow(w, k)), RSub(RInt(1), w)))
    ELSE RMul(RMul(RPow(w, k), RPow(RSub(RInt(1), w), 2)), RInt(k + 1))

\* ------------------------------------------------------------ event classes
Events == {"QuickDraft", "TradDraft", "PremierDraft"}

\* Variant of rares: no drafted rares counted.
rares_none == 3 - 3

rares == 3

\* Variant of gem_rewards with QuickDraft's 7-win reward mistyped as 95.
gem_rewards_typo(c) ==
    CASE c = "QuickDraft"   -> <<50, 100, 200, 300, 450, 650, 850, 95>>
      [] c = "TradDraft"    -> <<0, 0, 1000, 3000>>
      [] c = "PremierDraft" -> <<50, 100, 250, 1000, 1400, 1600, 1800, 2200>>

gem_rewards(c) ==
    CASE c = "QuickDraft"   -> <<50, 100, 200, 300, 450, 650, 850, 950>>
      [] c = "TradDraft"    -> <<0, 0, 1000, 3000>>
      [] c = "PremierDraft" -> <<50, 100, 250, 1000, 1400, 1600, 1800, 2200>>

\* Variant of pack_rewards with one pack for QuickDraft's 7 wins.
pack_rewards_flat(c) ==
    CASE c = "QuickDraft"   -> <<1, 1, 1, 1, 1, 1, 1, 1>>
      [] c = "TradDraft"    -> <<1, 1, 4, 6>>
      [] c = "PremierDraft" -> <<1, 1, 2, 2, 3, 4, 5, 6>>

pack_rewards(c) ==
    CASE c = "QuickDraft"   -> <<1, 1, 1, 1, 1, 1, 1, 2>>
      [] c = "TradDraft"    -> <<1, 1, 4, 6>>
      [] c = "PremierDraft" -> <<1, 1, 2, 2, 3, 4, 5, 6>>

admission(c) ==
    CASE c = "QuickDraft"   -> 750
      [] c = "TradDraft"    -> 1500
      [] c = "PremierDraft" -> 1500

\* QuickDraft.maxwins, PremierDraft.maxwins
maxwins_of(c) ==
    CASE c = "QuickDraft"   -> 7
      [] c = "PremierDraft" -> 7

\* QuickDraft.wincount_probs, PremierDraft.wincount_probs
wincount_probs(c, w, k) == cf_record_prob_lose3(w, k)

\* range(n) as the sequence <<0, ..., n-1>>
range(n) == [i \in 1..n |-> i - 1]

\* zip(a, b) stops at the end of the shorter sequence
zip(a, b) ==
    [i \in 1..(IF Len(a) < Len(b) THEN Len(a) ELSE Len(b)) |-> <<a[i], b[i]>>]

\* Variant of Event.wincount_odds over range(maxwins), one win count short.
Event_wincount_odds_short(c, w) ==
    LET ks == range(maxwins_of(c))
    IN  [i \in 1..Len(ks) |-> wincount_probs(c, w, ks[i])]

Event_wincount_odds(c, w) ==
    LET ks == range(maxwins_of(c) + 1)
    IN  [i \in 1..Len(ks) |-> wincount_probs(c, w, ks[i])]

case_counts == <<1, 3, 3, 1>>

TradDraft_wincount_odds(w) ==
    LET z == zip(case_counts, range(4))
    IN  [i \in 1..Len(z) |->
            RMul(RMul(RInt(z[i][1]), RPow(RSub(RInt(1), w), 3 - z[i][2])),
                 RPow(w, z[i][2]))]

wincount_odds(c, w) ==
    IF c = "TradDraft" THEN TradDraft_wincount_odds(w)
    ELSE Event_wincount_odds(c, w)

\* Variant of weighted_rewards that keeps every entry of the distribution,
\* a win count past the end of the scheme earning nothing.
weighted_rewards_padded(c, scheme, w) ==
    LET dist == wincount_odds(c, w)
    IN  [i \in 1..Len(dist) |->
            RMul(dist[i], RInt(IF i <= Len(scheme) THEN scheme[i] ELSE 0))]

weighted_rewards(c, scheme, w) ==
    LET z == zip(wincount_odds(c, w), scheme)
    IN  [i \in 1..Len(z) |-> RMul(z[i][1], RInt(z[i][2]))]

avg_gems(c, w) == RSum(weighted_rewards(c, gem_rewards(c), w))

\* roi's locals
roi_average_wins(c, w) ==
    LET z == zip(range(8), wincount_odds(c, w))
    IN  RSum([i \in 1..Len(z) |-> RMul(RInt(z[i][1]), z[i][2])])

roi_packs(c, w) == RSum(weighted_rewards(c, pack_rewards(c), w))

roi_reward(c, w) ==
    RAdd(avg_gems(c, w), RMul(RInt(200), RAdd(roi_packs(c, w), RInt(rares))))

\* The dict roi returns.  A value rounded to ndigits decimals is held as its
\* count of units: avg_wins and avg_packs in tenths, roi_ratio in hundredths.
roi(c, w) ==
    LET reward == roi_reward(c, w)
    IN  [admission |-> admission(c),
         avg_wins  |-> round(roi_average_wins(c, w), 1),
         avg_gems  |-> round(avg_gems(c, w), 0),
         avg_packs |-> round(roi_packs(c, w), 1),
         rares     |-> rares,
         value     |-> round(reward, 0),
         profit    |-> round(RSub(reward, RInt(admission(c))), 0),
         roi_ratio |-> RoundQuot(reward, admission(c), 2)]

sealed_gem_rewards == <<200, 400, 600, 1200, 1400, 1600, 2000, 2200>>

sealed_wincount_odds(w) ==
    LET ks == range(8) IN [i \in 1..Len(ks) |-> cf_record_prob_lose3(w, ks[i])]

gems_per_sealed(w) ==
    LET z == zip(sealed_wincount_odds(w), sealed_gem_rewards)
    IN  RSum([i \in 1..Len(z) |-> RMul(z[i][1], RInt(z[i][2]))])

trad_sealed_gem_rewards == <<200, 500, 1200, 1800, 2200>>

trad_sealed_wincount_odds(w) ==
    LET ks == range(5) IN [i \in 1..Len(ks) |-> cf_record_prob_lose2(w, ks[i], 4)]

gems_per_trad_sealed(w) ==
    LET z == zip(trad_sealed_wincount_odds(w), trad_sealed_gem_rewards)
    IN  RSum([i \in 1..Len(z) |-> RMul(z[i][1], RInt(z[i][2]))])

\* ------------------------------------------------------------ state machine
\* One behaviour is one use of the module: a win rate is chosen, one of the
\* module's functions is called with it, and (for the gem averages) the call
\* is repeated at larger win rates, as the doctests' sweeps do.
\* The module has no raise statement, and with numwins >= 0 no builtin it
\* calls (pow, factorial, zip, sum, round) fails, so every call returns and
\* raised stays "none".
VARIABLES
    op,             \* the function called last, "none" before any call
    cls,            \* the event class it was called on, "none" if a plain function
    winrate,        \* its winrate argument, [num, den] for num/den
    numwins,        \* its numwins argument
    maxwins,        \* its maxwins argument
    reward_scheme,  \* its reward_scheme argument
    raised,         \* the exception the call raised, "none" if it returned
    value,          \* the number returned (a scalar result)
    odds,           \* the list returned (wincount_odds, weighted_rewards)
    row,            \* the dict returned (roi)
    curve           \* the last two points (winrate, gems) of a sweep

vars == <<op, cls, winrate, numwins, maxwins, reward_scheme, raised, value,
          odds, row, curve>>

\* num/den for den in 1..MaxDen, from one step below 0 to one step above 1
WinRates ==
    {wr \in [num : (0 - 1)..(MaxDen + 1), den : 1..MaxDen] : wr.num <= wr.den + 1}

InUnit(wr) == 0 <= wr.num /\ wr.num <= wr.den

Rate(wr) == RFrac(wr.num, wr.den)

NoRow ==
    [admission |-> 0, avg_wins |-> 0, avg_gems |-> 0, avg_packs |-> 0,
     rares |-> 0, value |-> 0, profit |-> 0, roi_ratio |-> 0]

Take(s, n) == SubSeq(s, 1, IF n < Len(s) THEN n ELSE Len(s))

\* reward schemes a caller may hand to weighted_rewards: the class's own
\* tables, and lists shorter and longer than them
Schemes(c) ==
    {Take(gem_rewards(c) \o pack_rewards(c), n) : n \in 0..MaxSchemeLen}
        \cup {gem_rewards(c), pack_rewards(c)}

GemFunctions == {"avg_gems", "gems_per_sealed", "gems_per_trad_sealed"}

\* the gem average the function named f computes
Gems(f, c, w) ==
    CASE f = "avg_gems"             -> avg_gems(c, w)
      [] f = "gems_per_sealed"      -> gems_per_sealed(w)
      [] f = "gems_per_trad_sealed" -> gems_per_trad_sealed(w)

Init ==
    /\ op = "none"
    /\ cls = "none"
    /\ winrate \in WinRates
    /\ numwins = 0
    /\ maxwins = 0
    /\ reward_scheme = <<>>
    /\ raised = "none"
    /\ value = RInt(0)
    /\ odds = <<>>
    /\ row = NoRow
    /\ curve = <<>>

Call_cf_record_prob_lose3 ==
    /\ op = "none"
    /\ \E k \in 0..MaxNumwins :
        /\ numwins' = k
        /\ value' = cf_record_prob_lose3(Rate(winrate), k)
    /\ op' = "cf_record_prob_lose3"
    /\ UNCHANGED <<cls, winrate, maxwins, reward_scheme, raised, odds, row, curve>>

Call_cf_record_prob_lose2 ==
    /\ op = "none"
    /\ \E k \in 0..MaxNumwins, m \in 0..MaxMaxwins :
        /\ numwins' = k
        /\ maxwins' = m
        /\ value' = cf_record_prob_lose2(Rate(winrate), k, m)
    /\ op' = "cf_record_prob_lose2"
    /\ UNCHANGED <<cls, winrate, reward_scheme, raised, odds, row, curve>>

Call_wincount_odds ==
    /\ op = "none"
    /\ InUnit(winrate)
    /\ \E c \in Events :
        /\ cls' = c
        /\ odds' = wincount_odds(c, Rate(winrate))
    /\ op' = "wincount_odds"
    /\ UNCHANGED <<winrate, numwins, maxwins, reward_scheme, raised, value, row, curve>>

Call_weighted_rewards ==
    /\ op = "none"
    /\ InUnit(winrate)
    /\ \E c \in Events : \E scheme \in Schemes(c) :
        /\ cls' = c
        /\ reward_scheme' = scheme
        /\ odds' = weighted_rewards(c, scheme, Rate(winrate))
    /\ op' = "weighted_rewards"
    /\ UNCHANGED <<winrate, numwins, maxwins, raised, value, row, curve>>

Call_avg_gems ==
    /\ op = "none"
    /\ InUnit(winrate)
    /\ \E c \in Events :
        /\ cls' = c
        /\ value' = avg_gems(c, Rate(winrate))
        /\ curve' = <<[winrate |-> winrate, gems |-> value']>>
    /\ op' = "avg_gems"
    /\ UNCHANGED <<winrate, numwins, maxwins, reward_scheme, raised, odds, row>>

Call_gems_per_sealed ==
    /\ op = "none"
    /\ InUnit(winrate)
    /\ value' = gems_per_sealed(Rate(winrate))
    /\ curve' = <<[winrate |-> winrate, gems |-> value']>>
    /\ op' = "gems_per_sealed"
    /\ UNCHANGED <<cls, winrate, numwins, maxwins, reward_scheme, raised, odds, row>>

Call_gems_per_trad_sealed ==
    /\ op = "none"
    /\ InUnit(winrate)
    /\ value' = gems_per_trad_sealed(Rate(winrate))
    /\ curve' = <<[winrate |-> winrate, gems |-> value']>>
    /\ op' = "gems_per_trad_sealed"
    /\ UNCHANGED <<cls, winrate, numwins, maxwins, reward_scheme, raised, odds, row>>

\* the next point of a sweep: the same function at a larger win rate
SweepNext ==
    /\ op \in GemFunctions
    /\ \E j \in (winrate.num + 1)..winrate.den :
        /\ winrate' = [num |-> j, den |-> winrate.den]
        /\ value' = Gems(op, cls, Rate(winrate'))
        /\ curve' = <<curve[Len(curve)], [winrate |-> winrate', gems |-> value']>>
    /\ UNCHANGED <<op, cls, numwins, maxwins, reward_scheme, raised, odds, row>>

Call_roi ==
    /\ op = "none"
    /\ InUnit(winrate)
    /\ \E c \in Events :
        /\ cls' = c
        /\ row' = roi(c, Rate(winrate))
    /\ op' = "roi"
    /\ UNCHANGED <<winrate, numwins, maxwins, reward_scheme, raised, value, odds, curve>>

Next ==
    \/ Call_cf_record_prob_lose3
    \/ Call_cf_record_prob_lose2
    \/ Call_wincount_odds
    \/ Call_weighted_rewards
    \/ Call_avg_gems
    \/ Call_gems_per_sealed
    \/ Call_gems_per_trad_sealed
    \/ SweepNext
    \/ Call_roi

Spec == Init /\ [][Next]_vars

\* ------------------------------------------------------------------ claims
RAbs(a) == IF a.n.sg < 0 THEN RNeg(a) ELSE a

One == RInt(1)

Zero == RInt(0)

\* the state's win rate lies strictly between 0 and 1
Interior(wr) == 0 < wr.num /\ wr.num < wr.den

\* <<f(0), ..., f(hi)>> without the entry for k = skip
Lose3Others(w, skip) ==
    [i \in 1..8 |-> IF i - 1 = skip THEN Zero ELSE cf_record_prob_lose3(w, i - 1)]

Lose2Others(w, skip, m) ==
    [i \in 1..(m + 1) |->
        IF i - 1 = skip THEN Zero ELSE cf_record_prob_lose2(w, i - 1, m)]

\* C1: for each stopping rule and each p in [0,1] the probabilities of
\* k = 0..maxWins sum to 1: the list wincount_odds returns (drop after 3
\* losses for QuickDraft and PremierDraft, three fixed rounds for TradDraft),
\* and a value cf_record_prob_lose3 / cf_record_prob_lose2 returned together
\* with the values of the other win counts of its range.
C1_Normalization ==
    /\ op = "wincount_odds" => REq(RSum(odds), One)
    /\ op = "cf_record_prob_lose3" /\ InUnit(winrate) /\ numwins <= 7
        => REq(RAdd(value, RSum(Lose3Others(Rate(winrate), numwins))), One)
    /\ op = "cf_record_prob_lose2" /\ InUnit(winrate) /\ numwins <= maxwins
        => REq(RAdd(value, RSum(Lose2Others(Rate(winrate), numwins, maxwins))), One)

C1_Witness ==
    /\ op = "cf_record_prob_lose2"
    /\ winrate = [num |-> 3, den |-> 5]
    /\ maxwins = 4
    /\ numwins = 2
    /\ RLt(Zero, value)

\* C2 as claimed: a call of a distribution function with k outside the
\* rule's range or p outside [0,1] fails with DomainError.
C2_DomainErrorRaised ==
    /\ op = "cf_record_prob_lose3" /\ (~InUnit(winrate) \/ numwins > 7)
        => raised = "DomainError"
    /\ op = "cf_record_prob_lose2" /\ (~InUnit(winrate) \/ numwins > maxwins)
        => raised = "DomainError"

\* C2 as amended: the distribution functions check nothing and always return
\* a number.  For p in [0,1] it lies in [0,1] for every k >= 0; for a k above
\* the cap and 0 < p < 1 it is positive (the formula of the branch below the
\* cap, for a win count the event cannot end with); for p > 1
\* cf_record_prob_lose3 returns a negative number for every k other than 7.
C2_NoDomainCheck ==
    op \in {"cf_record_prob_lose3", "cf_record_prob_lose2"} =>
        /\ raised = "none"
        /\ InUnit(winrate) => RLe(Zero, value) /\ RLe(value, One)
        /\ Interior(winrate)
            /\ numwins > (IF op = "cf_record_prob_lose3" THEN 7 ELSE maxwins)
            => RLt(Zero, value)
        /\ op = "cf_record_prob_lose3" /\ winrate.num > winrate.den /\ numwins # 7
            => RLt(value, Zero)

C2_Witness ==
    /\ op = "cf_record_prob_lose3"
    /\ numwins = 8
    /\ winrate = [num |-> 1, den |-> 2]
    /\ raised = "none"
    /\ RLt(Zero, value)

\* C3 as claimed: weighted_rewards fails with LengthMismatchError when the
\* reward scheme and the win-count distribution differ in length.
C3_LengthMismatchRaised ==
    op = "weighted_rewards"
        /\ Len(reward_scheme) # Len(wincount_odds(cls, Rate(winrate)))
        => raised = "LengthMismatchError"

Shorter(i, j) == IF i < j THEN i ELSE j

\* C3 as amended: weighted_rewards checks no length and raises nothing; it
\* returns one product per index the two sequences share, so the sum is
\* taken over the first min(len) indexes, a prefix of the longer sequence.
C3_ZipTruncates ==
    op = "weighted_rewards" =>
        LET dist == wincount_odds(cls, Rate(winrate))
        IN  /\ raised = "none"
            /\ Len(odds) = Shorter(Len(dist), Len(reward_scheme))
            /\ \A i \in 1..Len(odds) :
                REq(odds[i], RMul(dist[i], RInt(reward_scheme[i])))

C3_Witness ==
    /\ op = "weighted_rewards"
    /\ cls = "QuickDraft"
    /\ Len(reward_scheme) = 3
    /\ Len(odds) = 3
    /\ raised = "none"

\* C4 as claimed: the fields of the dict roi returns are the computed values,
\* unrounded.
C4_RoiUnrounded ==
    op = "roi" =>
        LET w == Rate(winrate)
        IN  /\ REq(RInt(row.avg_wins), RMul(RInt(10), roi_average_wins(cls, w)))
            /\ REq(RInt(row.avg_gems), avg_gems(cls, w))
            /\ REq(RInt(row.avg_packs), RMul(RInt(10), roi_packs(cls, w)))
            /\ REq(RInt(row.value), roi_reward(cls, w))
            /\ REq(RInt(row.profit), RSub(roi_reward(cls, w), RInt(admission(cls))))
            /\ REq(RMul(RInt(row.roi_ratio), RInt(admission(cls))),
                   RMul(RInt(100), roi_reward(cls, w)))

\* x is within half a unit of the integer f
Nearest(f, x) == RLe(RAbs(RSub(RMul(RInt(2), x), RInt(2 * f))), One)

\* C4 as amended: roi rounds inside: average wins and packs are returned
\* rounded to one decimal, gems, value and profit to the nearest integer,
\* the ratio to two decimals; each field is within half a unit of its place
\* of the computed value.
C4_RoiRounded ==
    op = "roi" =>
        LET w == Rate(winrate)
        IN  /\ Nearest(row.avg_wins, RMul(RInt(10), roi_average_wins(cls, w)))
            /\ Nearest(row.avg_gems, avg_gems(cls, w))
            /\ Nearest(row.avg_packs, RMul(RInt(10), roi_packs(cls, w)))
            /\ Nearest(row.value, roi_reward(cls, w))
            /\ Nearest(row.profit, RSub(roi_reward(cls, w), RInt(admission(cls))))
            /\ RLe(RAbs(RSub(RMul(RInt(200), roi_reward(cls, w)),
                             RInt(2 * row.roi_ratio * admission(cls)))),
                   RInt(admission(cls)))
            /\ row.admission = admission(cls)
            /\ row.rares = rares

C4_Witness ==
    /\ op = "roi"
    /\ cls = "QuickDraft"
    /\ winrate = [num |-> 1, den |-> 2]
    /\ row.avg_gems = 347
    /\ ~REq(RInt(row.avg_gems), avg_gems(cls, Rate(winrate)))

\* total value minus admission at win rate i/den: its sign
Margin(c, i, den) == RCmp(roi_reward(c, RFrac(i, den)), RInt(admission(c)))

\* The grid cells [i/den, (i+1)/den) in which total value meets admission
\* (it equals admission at the cell's start, or crosses it inside the cell),
\* and den itself when total value equals admission at p = 1.
BreakEvenCells(c, den) ==
    {i \in 0..(den - 1) :
        \/ Margin(c, i, den) = 0
        \/ Margin(c, i, den) * Margin(c, i + 1, den) < 0}
    \cup {i \in {den} : Margin(c, i, den) = 0}

\* C5 as claimed: every format has exactly one win rate at which total value
\* equals admission.
C5_UniqueBreakEven ==
    op = "roi" => Cardinality(BreakEvenCells(cls, winrate.den)) = 1

\* total value rises strictly along the grid of denominator den
RewardRises(c, den) ==
    \A i \in 0..(den - 1) :
        RLt(roi_reward(c, RFrac(i, den)), roi_reward(c, RFrac(i + 1, den)))

\* C5 as amended: TradDraft and PremierDraft have exactly one break-even win
\* rate: total value rises strictly with p, from below admission at p = 0 to
\* above it at p = 1.  QuickDraft has none: its total value exceeds its
\* admission at every p, so roi reports a profit and a ratio above 1.
C5_BreakEvenByFormat ==
    op = "roi" =>
        /\ cls = "QuickDraft" =>
            /\ RLt(RInt(admission(cls)), roi_reward(cls, Rate(winrate)))
            /\ row.profit >= 100
            /\ row.roi_ratio > 100
            /\ BreakEvenCells(cls, winrate.den) = {}
        /\ cls \in {"TradDraft", "PremierDraft"} =>
            /\ Cardinality(BreakEvenCells(cls, winrate.den)) = 1
            /\ RewardRises(cls, winrate.den)
            /\ Margin(cls, 0, winrate.den) < 0
            /\ Margin(cls, winrate.den, winrate.den) > 0

C5_Witness ==
    /\ op = "roi"
    /\ cls = "TradDraft"
    /\ winrate = [num |-> 2, den |-> 5]
    /\ row.profit = 17
    /\ BreakEvenCells(cls, 5) = {1}

\* the list with 1 at index at (from 1) and 0 elsewhere
Concentrated(s, at) ==
    \A i \in 1..Len(s) : REq(s[i], IF i = at THEN One ELSE Zero)

\* C6: at p = 0 every rule gives k = 0 probability 1 and every other k
\* probability 0; at p = 1 it gives k = maxWins probability 1 and every
\* other k probability 0.
C6_Boundary ==
    /\ op = "wincount_odds" /\ winrate.num = 0 => Concentrated(odds, 1)
    /\ op = "wincount_odds" /\ winrate.num = winrate.den
        => Concentrated(odds, Len(odds))
    /\ op = "cf_record_prob_lose3" /\ numwins <= 7 /\ winrate.num = 0
        => REq(value, IF numwins = 0 THEN One ELSE Zero)
    /\ op = "cf_record_prob_lose3" /\ numwins <= 7 /\ winrate.num = winrate.den
        => REq(value, IF numwins = 7 THEN One ELSE Zero)
    /\ op = "cf_record_prob_lose2" /\ numwins <= maxwins /\ winrate.num = 0
        => REq(value, IF numwins = 0 THEN One ELSE Zero)
    /\ op = "cf_record_prob_lose2" /\ numwins <= maxwins /\ winrate.num = winrate.den
        => REq(value, IF numwins = maxwins THEN One ELSE Zero)

C6_Witness ==
    /\ op = "cf_record_prob_lose2"
    /\ winrate = [num |-> 0, den |-> 4]
    /\ maxwins = 3
    /\ numwins = 0
    /\ REq(value, One)

\* C7: for each of the five formats (avg_gems of QuickDraft, PremierDraft and
\* TradDraft, gems_per_sealed, gems_per_trad_sealed) and win rates p1 < p2
\* of a sweep, the gem average at p1 is at most the gem average at p2.
C7_GemsMonotone ==
    Len(curve) = 2 =>
        /\ curve[1].winrate.num < curve[2].winrate.num
        /\ curve[1].winrate.den = curve[2].winrate.den
        /\ RLe(curve[1].gems, curve[2].gems)

C7_Witness ==
    /\ op = "gems_per_trad_sealed"
    /\ Len(curve) = 2
    /\ curve[1].winrate = [num |-> 3, den |-> 10]
    /\ curve[2].winrate = [num |-> 7, den |-> 10]
    /\ RLt(curve[1].gems, curve[2].gems)

\* C8: QuickDraft.roi(0.6) is the doctest's dict: avg wins 4.0, avg gems
\* 499, avg packs 1.2, value 1345, profit 595, roi ratio 1.79, with
\* admission 750 and 3 rares.
C8_QuickDraftRoi ==
    op = "roi" /\ cls = "QuickDraft" /\ 5 * winrate.num = 3 * winrate.den
        => row = [admission |-> 750, avg_wins |-> 40, avg_gems |-> 499,
                  avg_packs |-> 12, rares |-> 3, value |-> 1345,
                  profit |-> 595, roi_ratio |-> 179]

C8_Witness ==
    /\ op = "roi"
    /\ cls = "QuickDraft"
    /\ winrate = [num |-> 3, den |-> 5]
    /\ row.value = 1345

RECURSIVE EndsWith(_, _, _, _, _, _)
\* The probability that an event played game by game, each game won with
\* probability w, now at wins won and lost lost, and stopping at n losses or
\* m wins, ends with exactly k wins.
EndsWith(w, k, n, m, won, lost) ==
    IF lost = n \/ won = m
    THEN (IF won = k THEN One ELSE Zero)
    ELSE RAdd(RMul(w, EndsWith(w, k, n, m, won + 1, lost)),
              RMul(RSub(One, w), EndsWith(w, k, n, m, won, lost + 1)))

\* C9: for p in [0,1] and k in the rule's range, the closed form equals the
\* probability that the game-by-game event ends with exactly k wins: 3
\* losses or 7 wins for cf_record_prob_lose3, 2 losses or maxwins wins for
\* cf_record_prob_lose2.
C9_ClosedFormIsProcess ==
    /\ op = "cf_record_prob_lose3" /\ InUnit(winrate) /\ numwins <= 7
        => REq(value, EndsWith(Rate(winrate), numwins, 3, 7, 0, 0))
    /\ op = "cf_record_prob_lose2" /\ InUnit(winrate) /\ numwins <= maxwins
        => REq(value, EndsWith(Rate(winrate), numwins, 2, maxwins, 0, 0))

C9_Witness ==
    /\ op = "cf_record_prob_lose3"
    /\ winrate = [num |-> 3, den |-> 5]
    /\ numwins = 7
    /\ round(value, 3) = 232

\* the largest win count of a format (TradDraft plays three matches)
FormatMaxWins(c) == IF c = "TradDraft" THEN 3 ELSE maxwins_of(c)

\* C10: for each format the gem table, the pack table and the distribution
\* have maxWins + 1 entries, at most the 8 of roi's range(8), so
\* weighted_rewards with the format's own tables and roi drop no term.
C10_TableLengths ==
    /\ cls \in Events =>
        /\ Len(gem_rewards(cls)) = FormatMaxWins(cls) + 1
        /\ Len(pack_rewards(cls)) = FormatMaxWins(cls) + 1
        /\ Len(wincount_odds(cls, Rate(winrate))) = FormatMaxWins(cls) + 1
        /\ Len(zip(range(8), wincount_odds(cls, Rate(winrate))))
            = FormatMaxWins(cls) + 1
    /\ op = "wincount_odds" => Len(odds) = FormatMaxWins(cls) + 1
    /\ op = "weighted_rewards"
        /\ reward_scheme \in {gem_rewards(cls), pack_rewards(cls)}
        => Len(odds) = FormatMaxWins(cls) + 1
    /\ op = "gems_per_sealed"
        => Len(sealed_wincount_odds(Rate(winrate))) = Len(sealed_gem_rewards)
            /\ Len(sealed_gem_rewards) = 8
    /\ op = "gems_per_trad_sealed"
        => Len(trad_sealed_wincount_odds(Rate(winrate))) = Len(trad_sealed_gem_rewards)
            /\ Len(trad_sealed_gem_rewards) = 5

C10_Witness ==
    /\ op = "weighted_rewards"
    /\ cls = "TradDraft"
    /\ reward_scheme = pack_rewards("TradDraft")
    /\ Len(odds) = 4

====
